---------------------------- MODULE Spec2Model ----------------------------
(***************************************************************************)
(* SahayAI: the text-analysis API (scripts/unified_api.py) and the         *)
(* document question-answering API (scripts/main.py).                      *)
(*                                                                         *)
(* SpecApi  : unified_api.py - load_models at startup, then /classify,     *)
(*            /spam-detect and /analyze requests; and main.py's /predict.  *)
(* SpecMain : main.py - /init_rag and /ask_question requests served by one *)
(*            asyncio event loop over the pdf_sessions dictionary.         *)
(*                                                                         *)
(* Texts are sequences of characters.  Probabilities are integer percents  *)
(* (0..100 stands for [0,1]).  An Optional value is a set: {} is None and  *)
(* {x} is the value x.                                                     *)
(***************************************************************************)
EXTENDS Integers, Sequences, FiniteSets, TLC

VARIABLES
    disk,                   \* model artifacts in the working directory
    grievance_classifier,   \* unified_api.py globals (lines 64-67)
    vectorizer,
    label_encoder,
    spam_detection_model,
    started,                \* unified_api.py: the startup event has run
    model,                  \* main.py global (line 19)
    response,               \* the last response of a text endpoint
    GEMINI_API_KEY,         \* main.py global (line 24)
    pdf_sessions,           \* main.py global (line 32)
    uuid_count,             \* number of uuid4() values generated so far
    inflight,               \* per client: the /init_rag request suspended in read()
    issued,                 \* history: the successful /init_rag responses, in order
    rag_response            \* the last response of /init_rag or /ask_question

apiVars == <<disk, grievance_classifier, vectorizer, label_encoder,
             spam_detection_model, started, model, response>>
ragVars == <<GEMINI_API_KEY, pdf_sessions, uuid_count, inflight, issued, rag_response>>
vars == <<disk, grievance_classifier, vectorizer, label_encoder,
          spam_detection_model, started, model, response,
          GEMINI_API_KEY, pdf_sessions, uuid_count, inflight, issued, rag_response>>

(***************************************************************************)
(* Bounds                                                                  *)
(***************************************************************************)
MaxLen == 6
MaxSessions == 2

(***************************************************************************)
(* Program constants                                                       *)
(***************************************************************************)
MinDescriptionLen == 5
PromptWindow == 10000

\* the characters a page of an uploaded document extracts to
PageChars == 6000

None == {}
Some(x) == {x}

(***************************************************************************)
(* Texts and str.strip()                                                   *)
(***************************************************************************)
Chars == {" ", "a"}
Whitespace == {" "}
Texts == UNION {[1..n -> Chars] : n \in 0..MaxLen}

RECURSIVE lstrip(_)
lstrip(s) == IF s # <<>> /\ Head(s) \in Whitespace THEN lstrip(Tail(s)) ELSE s

RECURSIVE rstrip(_)
rstrip(s) ==
    IF s # <<>> /\ s[Len(s)] \in Whitespace THEN rstrip(SubSeq(s, 1, Len(s) - 1)) ELSE s

strip(s) == rstrip(lstrip(s))

\* not request.description or len(request.description.strip()) < 5
invalid_description(description) ==
    description = <<>> \/ Len(strip(description)) < MinDescriptionLen

(***************************************************************************)
(* Model artifacts and load_models                                         *)
(*   a pickled predictor is "proba" (it has predict_proba) or "hard" (it   *)
(*   has only predict); an xgboost Booster has no predict_proba; "corrupt" *)
(*   is a file whose load raises; "missing" is no file.                    *)
(***************************************************************************)
Disks ==
    [gc_pkl : {"missing", "corrupt", "proba", "hard"},
     gc_json : {"missing", "corrupt", "booster"},
     vec_pkl : {"missing", "corrupt", "ok"},
     le_pkl : {"missing", "corrupt", "ok"},
     model_pkl : {"missing", "corrupt", "proba", "hard"}]

Unloaded ==
    [grievance_classifier |-> "None", vectorizer |-> "None",
     label_encoder |-> "None", spam_detection_model |-> "None", ok |-> FALSE]

\* the value a load leaves in its global, or "raise"
load_classifier(d) ==
    IF d.gc_pkl # "missing"
    THEN (IF d.gc_pkl = "corrupt" THEN "raise" ELSE d.gc_pkl)
    ELSE IF d.gc_json # "missing"
    THEN (IF d.gc_json = "corrupt" THEN "raise" ELSE d.gc_json)
    ELSE "raise"

load_pkl(f) == IF f \in {"missing", "corrupt"} THEN "raise" ELSE f

\* one try block: the first load that raises ends it, the globals assigned so
\* far keep their values and the later ones stay None
load_models(d) ==
    LET gc == load_classifier(d)
        vec == load_pkl(d.vec_pkl)
        le == load_pkl(d.le_pkl)
        sp == load_pkl(d.model_pkl)
    IN IF gc = "raise" THEN Unloaded
       ELSE IF vec = "raise" THEN [Unloaded EXCEPT !.grievance_classifier = gc]
       ELSE IF le = "raise"
       THEN [Unloaded EXCEPT !.grievance_classifier = gc, !.vectorizer = vec]
       ELSE IF sp = "raise"
       THEN [Unloaded EXCEPT !.grievance_classifier = gc, !.vectorizer = vec,
                             !.label_encoder = le]
       ELSE [grievance_classifier |-> gc, vectorizer |-> vec, label_encoder |-> le,
             spam_detection_model |-> sp, ok |-> TRUE]

\* the module globals as one record
Globals ==
    [grievance_classifier |-> grievance_classifier, vectorizer |-> vectorizer,
     label_encoder |-> label_encoder, spam_detection_model |-> spam_detection_model]

(***************************************************************************)
(* Predictors: what a call of the external model returns                   *)
(***************************************************************************)
Categories == <<"roads", "water", "power">>
Probs == {0, 25, 50, 75, 100}

RECURSIVE Sum(_)
Sum(s) == IF s = <<>> THEN 0 ELSE Head(s) + Sum(Tail(s))

Distributions(n) == {p \in [1..n -> Probs] : Sum(p) = 100}

hasattr_predict_proba(handle) == handle = "proba"

\* the results a predictor over n classes can give: an exception, the
\* probability row of predict_proba, or the class index of predict
PredictorResults(handle, n) ==
    {[kind |-> "raise", probs |-> <<>>, label |-> 0]}
    \cup (IF hasattr_predict_proba(handle)
          THEN {[kind |-> "proba", probs |-> p, label |-> 0] : p \in Distributions(n)}
          ELSE {[kind |-> "hard", probs |-> <<>>, label |-> i] : i \in 0..(n - 1)})

NoResult == [kind |-> "none", probs |-> <<>>, label |-> 0]

\* faulty variant of argmax: the index of the first smallest entry
argmin(p) ==
    (CHOOSE i \in 1..Len(p) :
        /\ \A j \in 1..Len(p) : p[j] >= p[i]
        /\ \A j \in 1..(i - 1) : p[j] > p[i]) - 1

\* np.argmax: the 0-based index of the first largest entry
argmax(p) ==
    (CHOOSE i \in 1..Len(p) :
        /\ \A j \in 1..Len(p) : p[j] <= p[i]
        /\ \A j \in 1..(i - 1) : p[j] < p[i]) - 1

\* label_encoder.inverse_transform([i])[0]
inverse_transform(i) == Categories[i + 1]

(***************************************************************************)
(* Responses of the text endpoints                                         *)
(***************************************************************************)
Reply(status, detail, missing, calls) ==
    [status |-> status, detail |-> detail, models_missing |-> missing,
     grievance_category |-> None, is_spam |-> None, confidence_score |-> None,
     category_confidence |-> None, spam_confidence |-> None, model_calls |-> calls]

\* grievance_classifier is None or vectorizer is None or label_encoder is None
classification_unloaded(g) ==
    g.grievance_classifier = "None" \/ g.vectorizer = "None" \/ g.label_encoder = "None"

\* /classify.  vec is what vectorizer.transform does ("ok" or "raise"), clf what
\* the classifier's predict_proba or predict returns.
classify_grievance(g, description, vec, clf) ==
    IF classification_unloaded(g)
    THEN Reply(503, "Grievance classification service unavailable", <<>>, <<>>)
    ELSE IF invalid_description(description)
    THEN Reply(400, "Invalid grievance description", <<>>, <<>>)
    ELSE IF vec = "raise"
    THEN Reply(500, "Classification error", <<>>, <<"transform">>)
    ELSE IF hasattr_predict_proba(g.grievance_classifier)
    THEN IF clf.kind = "raise"
         THEN Reply(500, "Classification error", <<>>, <<"transform", "predict_proba">>)
         ELSE LET prediction_idx == argmax(clf.probs)
              IN [Reply(200, "", <<>>, <<"transform", "predict_proba">>) EXCEPT
                    !.grievance_category = Some(inverse_transform(prediction_idx)),
                    !.confidence_score = Some(clf.probs[prediction_idx + 1])]
    ELSE IF clf.kind = "raise"
         THEN Reply(500, "Classification error", <<>>, <<"transform", "predict">>)
         ELSE [Reply(200, "", <<>>, <<"transform", "predict">>) EXCEPT
                 !.grievance_category = Some(inverse_transform(clf.label)),
                 !.confidence_score = None]

\* faulty variant of detect_spam: the check that the model is loaded is left out, and
\* the call on None raises inside the try block
detect_spam_unguarded(g, description, sp) ==
    IF invalid_description(description)
    THEN Reply(400, "Invalid text for spam detection", <<>>, <<>>)
    ELSE IF g.spam_detection_model = "None" \/ sp.kind = "raise"
    THEN Reply(500, "Spam detection error", <<>>, <<>>)
    ELSE IF hasattr_predict_proba(g.spam_detection_model)
    THEN [Reply(200, "", <<>>, <<"spam_predict_proba">>) EXCEPT
            !.is_spam = Some(argmax(sp.probs) # 0),
            !.confidence_score = Some(sp.probs[argmax(sp.probs) + 1])]
    ELSE [Reply(200, "", <<>>, <<"spam_predict">>) EXCEPT
            !.is_spam = Some(sp.label # 0),
            !.confidence_score = None]

\* /spam-detect.  sp is what the spam model's predict_proba or predict returns.
detect_spam(g, description, sp) ==
    IF g.spam_detection_model = "None"
    THEN Reply(503, "Spam detection service unavailable", <<>>, <<>>)
    ELSE IF invalid_description(description)
    THEN Reply(400, "Invalid text for spam detection", <<>>, <<>>)
    ELSE IF hasattr_predict_proba(g.spam_detection_model)
    THEN IF sp.kind = "raise"
         THEN Reply(500, "Spam detection error", <<>>, <<"spam_predict_proba">>)
         ELSE [Reply(200, "", <<>>, <<"spam_predict_proba">>) EXCEPT
                 !.is_spam = Some(argmax(sp.probs) # 0),
                 !.confidence_score = Some(sp.probs[argmax(sp.probs) + 1])]
    ELSE IF sp.kind = "raise"
         THEN Reply(500, "Spam detection error", <<>>, <<"spam_predict">>)
         ELSE [Reply(200, "", <<>>, <<"spam_predict">>) EXCEPT
                 !.is_spam = Some(sp.label # 0),
                 !.confidence_score = None]

\* faulty variant of models_missing: only the first unavailable service is listed
models_missing_first(g) ==
    IF classification_unloaded(g) THEN <<"grievance classification">>
    ELSE IF g.spam_detection_model = "None" THEN <<"spam detection">>
    ELSE <<>>

\* the models_missing list of /analyze
models_missing(g) ==
    (IF classification_unloaded(g) THEN <<"grievance classification">> ELSE <<>>)
    \o (IF g.spam_detection_model = "None" THEN <<"spam detection">> ELSE <<>>)

\* /analyze: the two handlers are called as plain functions; an HTTPException of
\* either is re-raised as it is
analyze_grievance(g, description, vec, clf, sp) ==
    IF models_missing(g) # <<>>
    THEN Reply(503, "The following services are unavailable", models_missing(g), <<>>)
    ELSE IF invalid_description(description)
    THEN Reply(400, "Invalid grievance description", <<>>, <<>>)
    ELSE LET classification_result == classify_grievance(g, description, vec, clf)
             spam_result == detect_spam(g, description, sp)
             calls == classification_result.model_calls \o spam_result.model_calls
         IN IF classification_result.status # 200 THEN classification_result
            ELSE IF spam_result.status # 200
            THEN [spam_result EXCEPT !.model_calls = calls]
            ELSE [Reply(200, "", <<>>, calls) EXCEPT
                    !.grievance_category = classification_result.grievance_category,
                    !.is_spam = spam_result.is_spam,
                    !.category_confidence = classification_result.confidence_score,
                    !.spam_confidence = spam_result.confidence_score]

\* main.py /predict: no check of the text; an exception of the model is not
\* caught (the framework answers 500); the result is under the key "spam"
predict(description, sp) ==
    IF sp.kind = "raise"
    THEN Reply(500, "Internal Server Error", <<>>, <<"spam_predict">>)
    ELSE [Reply(200, "", <<>>, <<"spam_predict">>) EXCEPT !.is_spam = Some(sp.label # 0)]

(***************************************************************************)
(* What the external models are asked, per request: a predictor is drawn   *)
(* only when the handler reaches its call.                                 *)
(***************************************************************************)
VecOracle(g, description) ==
    IF classification_unloaded(g) \/ invalid_description(description)
    THEN {"none"} ELSE {"ok", "raise"}

ClfOracle(g, description) ==
    IF classification_unloaded(g) \/ invalid_description(description)
    THEN {NoResult} ELSE PredictorResults(g.grievance_classifier, Len(Categories))

SpamOracle(g, description) ==
    IF g.spam_detection_model = "None" \/ invalid_description(description)
    THEN {NoResult} ELSE PredictorResults(g.spam_detection_model, 2)

\* a served request: the endpoint, the text, what the classifier (clf) and the
\* spam model (sp) returned while it was served, and the reply
Served(op, description, clf, sp, reply) ==
    [op |-> op, description |-> description, clf |-> clf, sp |-> sp, reply |-> reply]

NoResponse == Served("none", <<>>, NoResult, NoResult, Reply(0, "", <<>>, <<>>))

(***************************************************************************)
(* main.py: documents, sessions and the generative backend                 *)
(*   A text is [doc, len]: the first len characters of what extraction     *)
(*   yields for document doc; the empty string is the same for every doc.  *)
(***************************************************************************)
Clients == {"c1", "c2"}
Docs == {"refund-policy", "road-tender"}
PageCounts == {0, 1, 2}
Filenames ==
    {<<"a", ".", "p", "d", "f">>, <<"a", ".", "P", "D", "F">>, <<"p", "d", "f">>}
Uploads == [filename : Filenames, doc : Docs, pages : PageCounts]
Queries == {"What is the refund window?", "any query"}

EmptyText == [doc |-> "", len |-> 0]

\* filename.endswith(suffix)
endswith(s, suffix) ==
    /\ Len(s) >= Len(suffix)
    /\ SubSeq(s, Len(s) - Len(suffix) + 1, Len(s)) = suffix

\* text_content = "" ; for page in pages: text_content += page.extract_text() + "\n"
extract_text(upload) ==
    IF upload.pages = 0 THEN EmptyText
    ELSE [doc |-> upload.doc, len |-> upload.pages * (PageChars + 1)]

\* text[:n]
slice(text, n) ==
    IF text.len <= n THEN text ELSE [doc |-> text.doc, len |-> n]

\* os.getenv("GEMINI_API_KEY", "your_api_key_here")
Environment == {"unset", "your_api_key_here", "", "AIza-key"}
getenv(value) == IF value = "unset" THEN "your_api_key_here" ELSE value

\* faulty variant of uuid4: the same identifier for every upload
uuid4_fixed(count) == 1

\* str(uuid.uuid4()): the identifier of the count+1-st call; version-4 UUIDs
\* (122 random bits) are taken to be pairwise distinct
uuid4(count) == count + 1

\* faulty variant of store: the entry is not written
store_dropped(sessions, session_id, text) == sessions

\* pdf_sessions[session_id] = text_content
store(sessions, session_id, text) == (session_id :> text) @@ sessions

\* what the generative backend does on one invocation
BackendResults ==
    {[ok |-> TRUE, text |-> "30 days"], [ok |-> TRUE, text |-> ""],
     [ok |-> FALSE, text |-> "429 rate limit"], [ok |-> FALSE, text |-> "network"]}
\* its results on successive invocations
BackendScripts == [1..2 -> BackendResults]
NoScript == <<>>
NoPrompt == [content |-> EmptyText, question |-> ""]

RagReply(op, status, detail) ==
    [op |-> op, status |-> status, detail |-> detail, message |-> "",
     session_id |-> None, pages |-> None, answer |-> None,
     asked_id |-> 0, query |-> "", prompt |-> NoPrompt, script |-> NoScript,
     backend_calls |-> 0]

NoRagResponse == RagReply("none", 0, "")

\* /init_rag after the filename check and the await of read(): outcome is what
\* the read and the PDF library do.  Gives the dictionary, the number of
\* identifiers generated and the reply.
init_rag(sessions, count, upload, outcome) ==
    IF outcome # "ok"
    THEN [sessions |-> sessions, count |-> count,
          reply |-> [RagReply("init_rag", 500, "Error processing PDF") EXCEPT
                        !.message = outcome]]
    ELSE LET text_content == extract_text(upload)
             session_id == uuid4(count)
         IN [sessions |-> store(sessions, session_id, text_content),
             count |-> count + 1,
             reply |-> [RagReply("init_rag", 200, "PDF processed successfully") EXCEPT
                           !.session_id = Some(session_id),
                           !.pages = Some(upload.pages)]]

AskReply(status, detail, session_id, query) ==
    [RagReply("ask_question", status, detail) EXCEPT
        !.asked_id = session_id, !.query = query]

\* faulty variant of ask_question: a failed generation is tried once more
ask_question_retry(sessions, key, session_id, query, script) ==
    IF session_id \notin DOMAIN sessions
    THEN AskReply(400, "Invalid session ID", session_id, query)
    ELSE IF sessions[session_id].len = 0
    THEN AskReply(400, "No PDF content found", session_id, query)
    ELSE IF key = "your_api_key_here"
    THEN AskReply(503, "Gemini API key not configured", session_id, query)
    ELSE LET prompt == [content |-> slice(sessions[session_id], PromptWindow),
                        question |-> query]
             calls == IF script[1].ok THEN 1 ELSE 2
             result == script[calls]
         IN IF result.ok
            THEN [AskReply(200, "", session_id, query) EXCEPT
                    !.answer = Some(result.text), !.prompt = prompt,
                    !.script = script, !.backend_calls = calls]
            ELSE [AskReply(500, "Error generating answer", session_id, query) EXCEPT
                    !.message = result.text, !.prompt = prompt,
                    !.script = script, !.backend_calls = calls]

\* faulty variant of ask_question: the credential is looked at before the stored text
ask_question_key_first(sessions, key, session_id, query, script) ==
    IF session_id \notin DOMAIN sessions
    THEN AskReply(400, "Invalid session ID", session_id, query)
    ELSE IF key = "your_api_key_here"
    THEN AskReply(503, "Gemini API key not configured", session_id, query)
    ELSE IF sessions[session_id].len = 0
    THEN AskReply(400, "No PDF content found", session_id, query)
    ELSE LET prompt == [content |-> slice(sessions[session_id], PromptWindow),
                        question |-> query]
             result == script[1]
         IN IF result.ok
            THEN [AskReply(200, "", session_id, query) EXCEPT
                    !.answer = Some(result.text), !.prompt = prompt,
                    !.script = script, !.backend_calls = 1]
            ELSE [AskReply(500, "Error generating answer", session_id, query) EXCEPT
                    !.message = result.text, !.prompt = prompt,
                    !.script = script, !.backend_calls = 1]

\* faulty variant of ask_question: the prompt is built from the most recent upload,
\* as with a single global document
ask_question_last_upload(sessions, key, session_id, query, script) ==
    IF session_id \notin DOMAIN sessions
    THEN AskReply(400, "Invalid session ID", session_id, query)
    ELSE IF sessions[session_id].len = 0
    THEN AskReply(400, "No PDF content found", session_id, query)
    ELSE IF key = "your_api_key_here"
    THEN AskReply(503, "Gemini API key not configured", session_id, query)
    ELSE LET last == CHOOSE k \in DOMAIN sessions : \A j \in DOMAIN sessions : j <= k
             prompt == [content |-> slice(sessions[last], PromptWindow),
                        question |-> query]
             result == script[1]
         IN IF result.ok
            THEN [AskReply(200, "", session_id, query) EXCEPT
                    !.answer = Some(result.text), !.prompt = prompt,
                    !.script = script, !.backend_calls = 1]
            ELSE [AskReply(500, "Error generating answer", session_id, query) EXCEPT
                    !.message = result.text, !.prompt = prompt,
                    !.script = script, !.backend_calls = 1]

\* /ask_question.  script[1] is what the one generate_content call (or reading
\* response.text) does; the handler has no await, so it runs in one step.
ask_question(sessions, key, session_id, query, script) ==
    IF session_id \notin DOMAIN sessions
    THEN AskReply(400, "Invalid session ID", session_id, query)
    ELSE LET pdf_content == sessions[session_id]
         IN IF pdf_content.len = 0
            THEN AskReply(400, "No PDF content found", session_id, query)
            ELSE IF key = "your_api_key_here"
            THEN AskReply(503, "Gemini API key not configured", session_id, query)
            ELSE LET prompt == [content |-> slice(pdf_content, PromptWindow),
                                question |-> query]
                     result == script[1]
                 IN IF result.ok
                    THEN [AskReply(200, "", session_id, query) EXCEPT
                            !.answer = Some(result.text), !.prompt = prompt,
                            !.script = script, !.backend_calls = 1]
                    ELSE [AskReply(500, "Error generating answer", session_id, query)
                            EXCEPT !.message = result.text, !.prompt = prompt,
                                   !.script = script, !.backend_calls = 1]

\* the backend is drawn only when the handler reaches its call
ScriptOracle(sessions, key, session_id) ==
    IF \/ session_id \notin DOMAIN sessions
       \/ key = "your_api_key_here"
    THEN {NoScript}
    ELSE IF sessions[session_id].len = 0 THEN {NoScript} ELSE BackendScripts

(***************************************************************************)
(* unified_api.py and the text endpoint of main.py                         *)
(***************************************************************************)
\* main.py lines 18-19: the import fails without a loadable model.pkl, and
\* then no endpoint of main.py is served
import_model(d) == IF d.model_pkl \in {"missing", "corrupt"} THEN "None" ELSE d.model_pkl

RagInit ==
    /\ pdf_sessions = <<>>
    /\ uuid_count = 0
    /\ inflight = [c \in Clients |-> {}]
    /\ issued = <<>>
    /\ rag_response = NoRagResponse

InitApi ==
    /\ disk \in Disks
    /\ grievance_classifier = "None"
    /\ vectorizer = "None"
    /\ label_encoder = "None"
    /\ spam_detection_model = "None"
    /\ started = FALSE
    /\ model = import_model(disk)
    /\ response = NoResponse
    /\ GEMINI_API_KEY = "your_api_key_here"
    /\ RagInit

\* startup_event: load_models, whose result only decides a log line
Startup ==
    /\ ~started
    /\ LET m == load_models(disk)
       IN /\ grievance_classifier' = m.grievance_classifier
          /\ vectorizer' = m.vectorizer
          /\ label_encoder' = m.label_encoder
          /\ spam_detection_model' = m.spam_detection_model
    /\ started' = TRUE
    /\ UNCHANGED <<disk, model, response>>
    /\ UNCHANGED ragVars

Classify ==
    /\ started
    /\ response = NoResponse
    /\ \E description \in Texts :
         \E vec \in VecOracle(Globals, description), clf \in ClfOracle(Globals, description) :
            response' = Served("classify", description, clf, NoResult,
                                classify_grievance(Globals, description, vec, clf))
    /\ UNCHANGED <<disk, grievance_classifier, vectorizer, label_encoder,
                   spam_detection_model, started, model>>
    /\ UNCHANGED ragVars

SpamDetect ==
    /\ started
    /\ response = NoResponse
    /\ \E description \in Texts :
         \E sp \in SpamOracle(Globals, description) :
            response' = Served("spam-detect", description, NoResult, sp,
                                detect_spam(Globals, description, sp))
    /\ UNCHANGED <<disk, grievance_classifier, vectorizer, label_encoder,
                   spam_detection_model, started, model>>
    /\ UNCHANGED ragVars

Analyze ==
    /\ started
    /\ response = NoResponse
    /\ \E description \in Texts :
         \E vec \in VecOracle(Globals, description), clf \in ClfOracle(Globals, description),
            sp \in SpamOracle(Globals, description) :
            response' = Served("analyze", description, clf, sp,
                                analyze_grievance(Globals, description, vec, clf, sp))
    /\ UNCHANGED <<disk, grievance_classifier, vectorizer, label_encoder,
                   spam_detection_model, started, model>>
    /\ UNCHANGED ragVars

Predict ==
    /\ model # "None"
    /\ response = NoResponse
    /\ \E description \in Texts :
         \E sp \in PredictorResults("hard", 2) :
            response' = Served("predict", description, NoResult, sp,
                                predict(description, sp))
    /\ UNCHANGED <<disk, grievance_classifier, vectorizer, label_encoder,
                   spam_detection_model, started, model>>
    /\ UNCHANGED ragVars

\* the response is sent and the next request is taken; the handlers only read
\* the globals, so serving the requests one at a time loses no behaviour
Respond ==
    /\ response # NoResponse
    /\ response' = NoResponse
    /\ UNCHANGED <<disk, grievance_classifier, vectorizer, label_encoder,
                   spam_detection_model, started, model>>
    /\ UNCHANGED ragVars

NextApi == Startup \/ Classify \/ SpamDetect \/ Analyze \/ Predict \/ Respond

SpecApi == InitApi /\ [][NextApi]_vars

(***************************************************************************)
(* Properties of the text endpoints (under SpecApi)                        *)
(***************************************************************************)
TextOps == {"classify", "spam-detect", "analyze", "predict"}
TrimmedLen(description) == Len(strip(description))
Range(s) == {s[i] : i \in 1..Len(s)}
IsMax(p, i) == i \in 1..Len(p) /\ \A j \in 1..Len(p) : p[j] <= p[i]

\* C1: for every text whose trimmed length is below 5, and whatever models are
\* loaded, classify, spam-detect, analyze and predict all answer 400
\* (InvalidInput), never 503 and never a success.
C1_ShortTextIsInvalidInput ==
    (response.op \in TextOps /\ TrimmedLen(response.description) < 5)
        => response.reply.status = 400

\* C2: after load_models every artifact that is present and loadable is loaded,
\* whatever happened to the artifacts before it; with the classifier present,
\* the vectorizer missing and the spam model present, spam-detect on a valid
\* text is not refused with 503.
C2_ArtifactLoadsIndependent ==
    started =>
        /\ disk.gc_pkl \in {"proba", "hard"} => grievance_classifier = disk.gc_pkl
        /\ (disk.gc_pkl = "missing" /\ disk.gc_json = "booster")
              => grievance_classifier = "booster"
        /\ disk.vec_pkl = "ok" => vectorizer = "ok"
        /\ disk.le_pkl = "ok" => label_encoder = "ok"
        /\ disk.model_pkl \in {"proba", "hard"} => spam_detection_model = disk.model_pkl
        /\ (/\ response.op = "spam-detect"
            /\ TrimmedLen(response.description) >= 5
            /\ disk.gc_pkl \in {"proba", "hard"}
            /\ disk.vec_pkl = "missing"
            /\ disk.model_pkl \in {"proba", "hard"})
              => response.reply.status # 503

NoBody(r) ==
    /\ r.grievance_category = None
    /\ r.is_spam = None
    /\ r.confidence_score = None
    /\ r.category_confidence = None
    /\ r.spam_confidence = None

\* C3: for a text of trimmed length at least 5, an endpoint whose model is not
\* loaded answers 503 with no result: classify needs the classifier, the
\* vectorizer and the label encoder, spam-detect the spam model, analyze all
\* four; and a success of analyze carries both a category and an is_spam value.
C3_UnavailableIs503 ==
    LET r == response.reply
        noClassification ==
            \/ grievance_classifier = "None"
            \/ vectorizer = "None"
            \/ label_encoder = "None"
        noSpam == spam_detection_model = "None"
    IN TrimmedLen(response.description) >= 5 =>
        /\ (response.op = "classify" /\ noClassification) => (r.status = 503 /\ NoBody(r))
        /\ (response.op = "spam-detect" /\ noSpam) => (r.status = 503 /\ NoBody(r))
        /\ (response.op = "analyze" /\ (noClassification \/ noSpam))
              => (r.status = 503 /\ NoBody(r))
        /\ (response.op = "analyze" /\ r.status = 200)
              => (r.grievance_category # None /\ r.is_spam # None)

\* C3 witness: analyze of a valid text with classification loaded and the spam
\* model not loaded was refused with 503.
C3_Witness ==
    /\ response.op = "analyze"
    /\ TrimmedLen(response.description) >= 5
    /\ grievance_classifier # "None" /\ vectorizer # "None" /\ label_encoder # "None"
    /\ spam_detection_model = "None"
    /\ response.reply.status = 503

\* C4: analyze looks at availability before it validates the text: for every
\* text, valid or not, when a service is unavailable the answer is 503, its list
\* names exactly the unavailable services, and no validation answer (400) and
\* no model call happens.
C4_AnalyzeAvailabilityFirst ==
    LET r == response.reply
        noClassification ==
            \/ grievance_classifier = "None"
            \/ vectorizer = "None"
            \/ label_encoder = "None"
        noSpam == spam_detection_model = "None"
    IN (response.op = "analyze" /\ (noClassification \/ noSpam)) =>
        /\ r.status = 503
        /\ ("grievance classification" \in Range(r.models_missing)) <=> noClassification
        /\ ("spam detection" \in Range(r.models_missing)) <=> noSpam
        /\ Len(r.models_missing) = Cardinality(Range(r.models_missing))
        /\ Range(r.models_missing) \subseteq {"grievance classification", "spam detection"}
        /\ r.model_calls = <<>>

\* C4 witness: analyze of a too-short text with both services unavailable was
\* answered 503 with both of them listed.
C4_Witness ==
    /\ response.op = "analyze"
    /\ TrimmedLen(response.description) < 5
    /\ response.reply.status = 503
    /\ Len(response.reply.models_missing) = 2

\* the confidence the claim expects of a predictor handle and its result
ExpectedConfidence(handle, result, conf) ==
    IF hasattr_predict_proba(handle)
    THEN \E i \in 1..Len(result.probs) :
            IsMax(result.probs, i) /\ conf = Some(result.probs[i]) /\ result.probs[i] \in 0..100
    ELSE conf = None

\* C10: a successful classify or spam-detect carries a confidence exactly when
\* the predictor has predict_proba; then the label is the one at the arg-max of
\* the probabilities and the confidence is the probability there (in [0,1]);
\* without it the label is the hard prediction and the confidence is absent.
\* analyze passes both confidences through unchanged.
C10_ConfidenceIffProbabilities ==
    LET r == response.reply
    IN r.status = 200 =>
        /\ response.op = "classify" =>
              /\ ExpectedConfidence(grievance_classifier, response.clf, r.confidence_score)
              /\ IF hasattr_predict_proba(grievance_classifier)
                 THEN \E i \in 1..Len(response.clf.probs) :
                        /\ IsMax(response.clf.probs, i)
                        /\ r.grievance_category = Some(Categories[i])
                        /\ r.confidence_score = Some(response.clf.probs[i])
                 ELSE r.grievance_category = Some(Categories[response.clf.label + 1])
        /\ response.op = "spam-detect" =>
              /\ ExpectedConfidence(spam_detection_model, response.sp, r.confidence_score)
              /\ IF hasattr_predict_proba(spam_detection_model)
                 THEN \E i \in 1..Len(response.sp.probs) :
                        /\ IsMax(response.sp.probs, i)
                        /\ r.is_spam = Some(i # 1)
                        /\ r.confidence_score = Some(response.sp.probs[i])
                 ELSE r.is_spam = Some(response.sp.label # 0)
        /\ response.op = "analyze" =>
              /\ ExpectedConfidence(grievance_classifier, response.clf, r.category_confidence)
              /\ ExpectedConfidence(spam_detection_model, response.sp, r.spam_confidence)

\* C10 witness: a successful analyze whose classifier has no predict_proba (no
\* category confidence) and whose spam model has it (spam confidence 0.75).
C10_Witness ==
    /\ response.op = "analyze"
    /\ response.reply.status = 200
    /\ ~hasattr_predict_proba(grievance_classifier)
    /\ response.reply.category_confidence = None
    /\ response.reply.spam_confidence = Some(75)
    /\ response.reply.is_spam = Some(TRUE)


(***************************************************************************)
(* main.py: /init_rag and /ask_question on one event loop                  *)
(***************************************************************************)
Suspended == {c \in Clients : inflight[c] # {}}

InitMain ==
    /\ disk = [gc_pkl |-> "missing", gc_json |-> "missing", vec_pkl |-> "missing",
               le_pkl |-> "missing", model_pkl |-> "hard"]
    /\ grievance_classifier = "None"
    /\ vectorizer = "None"
    /\ label_encoder = "None"
    /\ spam_detection_model = "None"
    /\ started = FALSE
    /\ model = import_model(disk)
    /\ response = NoResponse
    /\ GEMINI_API_KEY \in {getenv(e) : e \in Environment}
    /\ RagInit

\* init_rag up to the await of pdf_files.read(): a filename that does not end
\* in .pdf is refused, otherwise the request is suspended in the read
InitRagBegin(c) ==
    /\ rag_response = NoRagResponse
    /\ inflight[c] = {}
    /\ uuid_count + Cardinality(Suspended) < MaxSessions
    /\ \E upload \in Uploads :
         IF ~endswith(upload.filename, <<".", "p", "d", "f">>)
         THEN /\ rag_response' = RagReply("init_rag", 400, "Only PDF files are allowed")
              /\ UNCHANGED inflight
         ELSE /\ inflight' = [inflight EXCEPT ![c] = {upload}]
              /\ UNCHANGED rag_response
    /\ UNCHANGED <<GEMINI_API_KEY, pdf_sessions, uuid_count, issued>>
    /\ UNCHANGED apiVars

\* init_rag from the end of the read to its return, with no await in between
InitRagResume(c) ==
    /\ rag_response = NoRagResponse
    /\ inflight[c] # {}
    /\ \E upload \in inflight[c], outcome \in {"ok", "read raises", "PdfReader raises",
                                              "extract_text raises"} :
         LET r == init_rag(pdf_sessions, uuid_count, upload, outcome)
         IN /\ pdf_sessions' = r.sessions
            /\ uuid_count' = r.count
            /\ rag_response' = r.reply
            /\ issued' = IF r.reply.status = 200
                         THEN Append(issued,
                                     [session_id |-> CHOOSE x \in r.reply.session_id : TRUE,
                                      text |-> extract_text(upload),
                                      overlapped |-> Suspended # {c}])
                         ELSE issued
    /\ inflight' = [inflight EXCEPT ![c] = {}]
    /\ UNCHANGED GEMINI_API_KEY
    /\ UNCHANGED apiVars

AskQuestion ==
    /\ rag_response = NoRagResponse
    /\ \E session_id \in 0..MaxSessions, query \in Queries :
         \E script \in ScriptOracle(pdf_sessions, GEMINI_API_KEY, session_id) :
            rag_response' =
                ask_question(pdf_sessions, GEMINI_API_KEY, session_id, query, script)
    /\ UNCHANGED <<GEMINI_API_KEY, pdf_sessions, uuid_count, inflight, issued>>
    /\ UNCHANGED apiVars

\* the response is sent; a suspended upload stays suspended
RagRespond ==
    /\ rag_response # NoRagResponse
    /\ rag_response' = NoRagResponse
    /\ UNCHANGED <<GEMINI_API_KEY, pdf_sessions, uuid_count, inflight, issued>>
    /\ UNCHANGED apiVars

NextMain ==
    \/ \E c \in Clients : InitRagBegin(c)
    \/ \E c \in Clients : InitRagResume(c)
    \/ AskQuestion
    \/ RagRespond

SpecMain == InitMain /\ [][NextMain]_vars

(***************************************************************************)
(* Properties of the document sessions (under SpecMain)                    *)
(***************************************************************************)
IssuedIds == {issued[i].session_id : i \in 1..Len(issued)}
IsAsk == rag_response.op = "ask_question"
Min(a, b) == IF a <= b THEN a ELSE b

\* C5: sessions are write-once: every session id ever returned is still in
\* pdf_sessions with exactly the text extracted at its creation; the dictionary
\* holds nothing else (a failed upload adds no entry, a question changes none).
C5_SessionsWriteOnce ==
    /\ \A i \in 1..Len(issued) :
          /\ issued[i].session_id \in DOMAIN pdf_sessions
          /\ pdf_sessions[issued[i].session_id] = issued[i].text
    /\ DOMAIN pdf_sessions = IssuedIds
    /\ Cardinality(DOMAIN pdf_sessions) = Len(issued)

\* C5 witness: two sessions with different texts exist and a question on the
\* first has been answered after the second was created.
C5_Witness ==
    /\ Len(issued) = 2
    /\ issued[1].text # issued[2].text
    /\ IsAsk
    /\ rag_response.asked_id = issued[1].session_id
    /\ rag_response.status = 200

\* C6: two uploads never get the same session id, and the document content in
\* the prompt of a question on session A is the first 10000 characters of A's
\* stored text, never text of another session B.
C6_SessionIsolation ==
    /\ \A i, j \in 1..Len(issued) : i # j => issued[i].session_id # issued[j].session_id
    /\ (IsAsk /\ rag_response.backend_calls > 0) =>
          /\ rag_response.asked_id \in IssuedIds
          /\ \A i \in 1..Len(issued) :
                issued[i].session_id = rag_response.asked_id =>
                   /\ rag_response.prompt.content.doc = issued[i].text.doc
                   /\ rag_response.prompt.content.len = Min(issued[i].text.len, 10000)
                   /\ \A j \in 1..Len(issued) :
                         (/\ issued[j].session_id # rag_response.asked_id
                          /\ issued[j].text.doc # issued[i].text.doc)
                            => rag_response.prompt.content.doc # issued[j].text.doc

\* C6 witness: with two sessions of different documents, a question on the
\* first one, created before the second, was sent with its text cut to 10000.
C6_Witness ==
    /\ Len(issued) = 2
    /\ issued[1].text.doc # issued[2].text.doc
    /\ issued[2].text.len > 0
    /\ issued[1].text.len > 10000
    /\ IsAsk
    /\ rag_response.asked_id = issued[1].session_id
    /\ rag_response.backend_calls = 1
    /\ rag_response.prompt.content.len = 10000

\* C7: ask_question applies its guards in order: an id not in pdf_sessions is
\* refused as an invalid session whatever the query and the key; otherwise an
\* empty stored text is refused; otherwise a missing key is refused with 503;
\* the backend is called in none of the three and only when all pass.
C7_GuardOrder ==
    IsAsk =>
        IF rag_response.asked_id \notin DOMAIN pdf_sessions
        THEN /\ rag_response.status = 400
             /\ rag_response.detail = "Invalid session ID"
             /\ rag_response.backend_calls = 0
        ELSE IF pdf_sessions[rag_response.asked_id] = EmptyText
        THEN /\ rag_response.status = 400
             /\ rag_response.detail = "No PDF content found"
             /\ rag_response.backend_calls = 0
        ELSE IF GEMINI_API_KEY = "your_api_key_here"
        THEN /\ rag_response.status = 503
             /\ rag_response.detail = "Gemini API key not configured"
             /\ rag_response.backend_calls = 0
        ELSE rag_response.backend_calls > 0

\* C7 witness: a question on a stored session whose text is empty, with no key
\* configured, was refused for the empty text.
C7_Witness ==
    /\ IsAsk
    /\ rag_response.asked_id \in DOMAIN pdf_sessions
    /\ pdf_sessions[rag_response.asked_id] = EmptyText
    /\ GEMINI_API_KEY = "your_api_key_here"
    /\ rag_response.detail = "No PDF content found"

\* C8: one question invokes the backend at most once: a failed invocation ends
\* the request with the generation error carrying the backend's message, a
\* successful one returns exactly the backend's text; and the step that serves a
\* question leaves pdf_sessions unchanged.
C8_SingleBackendCall ==
    /\ [](IsAsk =>
            /\ rag_response.backend_calls <= 1
            /\ rag_response.backend_calls = 1 =>
                  IF rag_response.script[1].ok
                  THEN /\ rag_response.status = 200
                       /\ rag_response.answer = Some(rag_response.script[1].text)
                  ELSE /\ rag_response.status = 500
                       /\ rag_response.detail = "Error generating answer"
                       /\ rag_response.message = rag_response.script[1].text
                       /\ rag_response.answer = None)
    /\ [][rag_response'.op = "ask_question" => pdf_sessions' = pdf_sessions]_vars

\* C8 witness: the backend failed on its one invocation, would have succeeded
\* on a second, and the request ended with the generation error.
C8_Witness ==
    /\ IsAsk
    /\ rag_response.backend_calls = 1
    /\ ~rag_response.script[1].ok
    /\ rag_response.script[2].ok
    /\ rag_response.status = 500
    /\ pdf_sessions # <<>>

\* C9: under any interleaving of uploads (suspended in their read) and
\* questions, a returned session id is already in pdf_sessions, so a question
\* on a returned id is never refused as an invalid session; and every upload
\* inserts under a new key and leaves every other entry as it was.
C9_InsertBeforeReturn ==
    /\ [](/\ IssuedIds \subseteq DOMAIN pdf_sessions
          /\ rag_response.session_id \subseteq DOMAIN pdf_sessions
          /\ (IsAsk /\ rag_response.asked_id \in IssuedIds)
                => rag_response.detail # "Invalid session ID")
    /\ [][/\ \A k \in DOMAIN pdf_sessions :
               k \in DOMAIN pdf_sessions' /\ pdf_sessions'[k] = pdf_sessions[k]
          /\ Len(issued') > Len(issued) =>
               /\ Cardinality(DOMAIN pdf_sessions' \ DOMAIN pdf_sessions) = 1
               /\ rag_response'.session_id = DOMAIN pdf_sessions' \ DOMAIN pdf_sessions
         ]_vars

\* C9 witness: two uploads overlapped (the second completed while the first
\* was still suspended), and a question on a returned id was answered
\* while the dictionary holds both entries.
C9_Witness ==
    /\ Len(issued) = 2
    /\ issued[1].overlapped
    /\ Cardinality(DOMAIN pdf_sessions) = 2
    /\ IsAsk
    /\ rag_response.asked_id = issued[2].session_id
    /\ rag_response.detail # "Invalid session ID"

=============================================================================
